---- MODULE Spec2Model ----
(***************************************************************************)
(* Model of src/agents/meal_nutrition.py: the get_nutrition_info tool, its *)
(* helpers parse_input and make_request_with_retry, and the two outbound   *)
(* call sites (food search, food detail).                                  *)
(*                                                                         *)
(* Text is a sequence of one-character strings.  A quantity is the exact   *)
(* rational [n |-> numerator, d |-> denominator] of the float the code     *)
(* computes; d = 0 stands for Python's None.                               *)
(*                                                                         *)
(* Spec and FairSpec are one invocation of get_nutrition_info against      *)
(* endpoints that answer as they please; SpecParse and SpecConvert apply   *)
(* parse_input and convert_to_grams to families of arguments; SpecCalls is *)
(* several invocations in one process against endpoints that answer the    *)
(* same every time; FairSpecRecipe is one invocation of get_random_recipe. *)
(***************************************************************************)
EXTENDS Integers, Sequences, FiniteSets, TLC

VARIABLES
    query,           \* the argument of get_nutrition_info
    API_KEY,         \* os.environ.get("USDA_FOOD_API_KEY"): "unset", "empty" or "set"
    pc,              \* where the invocation stands
    site,            \* the call site of make_request_with_retry: "search" or "detail"
    attempt,         \* the loop variable of make_request_with_retry
    hist,            \* the outcomes of the requests of the latest make_request_with_retry
    requests,        \* requests.get calls issued so far, per call site
    sleeps,          \* time.sleep calls made so far, per call site
    parsed,          \* what parse_input returned
    search_results,  \* the decoded body of the search response
    food_details,    \* the decoded body of the detail response
    total_grams,     \* what convert_to_grams returned
    result,          \* the value get_nutrition_info returns
    os_environ,      \* os.environ["USDA_FOOD_API_KEY"] of the process: "unset", "empty" or "set"
    dotenv_file,     \* what ../.env gives the variable: "unset" (no file, no entry), "empty" or "set"
    usda,            \* what the two endpoints answer, when they answer the same every time
    calls,           \* the invocations of get_nutrition_info in the process, with their locals
    count,           \* the argument of get_random_recipe
    simplified_meals,\* the list get_random_recipe collects and returns under "meals"
    response,        \* what the latest requests.get of get_random_recipe gave
    recipe_requests, \* requests.get calls of get_random_recipe so far, counted up to MaxRequests
    recipe_pc        \* where get_random_recipe stands: "idle", "loop", "returned" or "raised"

vars == <<query, API_KEY, pc, site, attempt, hist, requests, sleeps,
          parsed, search_results, food_details, total_grams, result,
          os_environ, dotenv_file, usda, calls,
          count, simplified_meals, response, recipe_requests, recipe_pc>>

\* the state of the process outside one invocation's locals
process_vars == <<os_environ, dotenv_file, usda, calls>>

\* the locals of get_random_recipe
recipe_vars == <<count, simplified_meals, response, recipe_requests, recipe_pc>>

(***************************************************************************)
(* Characters and the str methods the code uses.                           *)
(***************************************************************************)
DigitChars == <<"0", "1", "2", "3", "4", "5", "6", "7", "8", "9">>

UpperChars == <<"A", "B", "C", "D", "E", "F", "G", "H", "I", "J", "K", "L", "M",
                "N", "O", "P", "Q", "R", "S", "T", "U", "V", "W", "X", "Y", "Z">>

LowerChars == <<"a", "b", "c", "d", "e", "f", "g", "h", "i", "j", "k", "l", "m",
                "n", "o", "p", "q", "r", "s", "t", "u", "v", "w", "x", "y", "z">>

Range(f) == {f[i] : i \in DOMAIN f}

Whitespace == {" ", "\t", "\n"}

IsSpace(c) == c \in Whitespace

DigitVal(c) == (CHOOSE i \in DOMAIN DigitChars : DigitChars[i] = c) - 1

LowerChar(c) ==
    IF c \in Range(UpperChars)
    THEN LowerChars[CHOOSE i \in DOMAIN UpperChars : UpperChars[i] = c]
    ELSE c

lower(s) == [i \in DOMAIN s |-> LowerChar(s[i])]

\* s[from:to] of Python, with 1-based inclusive positions from..to
Slice(s, from, to) == IF from > to THEN <<>> ELSE SubSeq(s, from, to)

DigitSet == Range(DigitChars)

WordSet == Range(DigitChars) \cup Range(UpperChars) \cup Range(LowerChars) \cup {"_"}

\* number of consecutive characters of s, from position i on, that are in chars
\* (the greedy match of a character class repeated: \d+, \s*, \w+)
RECURSIVE RunLen(_, _, _)
RunLen(s, i, chars) ==
    IF i > Len(s) \/ s[i] \notin chars THEN 0 ELSE 1 + RunLen(s, i + 1, chars)

\* number of trailing whitespace characters of s[1..i]
RECURSIVE TrailingSpaces(_, _)
TrailingSpaces(s, i) ==
    IF i < 1 \/ ~IsSpace(s[i]) THEN 0 ELSE 1 + TrailingSpaces(s, i - 1)

strip(s) ==
    LET lead  == RunLen(s, 1, Whitespace)
        trail == TrailingSpaces(s, Len(s))
    IN  IF lead = Len(s) THEN <<>> ELSE Slice(s, lead + 1, Len(s) - trail)

\* the first position from i on where s has the character c, Len(s) + 1 if none
RECURSIVE FindChar(_, _, _)
FindChar(s, i, c) ==
    IF i > Len(s) \/ s[i] = c THEN i ELSE FindChar(s, i + 1, c)

\* the last position up to i where s has the character c, 0 if none
RECURSIVE RFindChar(_, _, _)
RFindChar(s, i, c) ==
    IF i < 1 \/ s[i] = c THEN i ELSE RFindChar(s, i - 1, c)

\* str.rfind(" "): the last position of a space, 0 when there is none
\* (Python's -1; positions are 1-based here)
rfind_space(s) == IF RFindChar(s, Len(s), " ") < 1 THEN 0 ELSE RFindChar(s, Len(s), " ")

\* the pieces of s from position i on, between the slashes
RECURSIVE SplitFrom(_, _)
SplitFrom(s, i) ==
    IF FindChar(s, i, "/") > Len(s)
    THEN <<Slice(s, i, Len(s))>>
    ELSE <<Slice(s, i, FindChar(s, i, "/") - 1)>> \o SplitFrom(s, FindChar(s, i, "/") + 1)

\* str.split("/"): the pieces between the slashes, in order
split_slash(s) == SplitFrom(s, 1)

\* int() of the first k characters of a run of decimal digits
RECURSIVE DecimalPrefix(_, _)
DecimalPrefix(ds, k) ==
    IF k = 0 THEN 0 ELSE 10 * DecimalPrefix(ds, k - 1) + DigitVal(ds[k])

DecimalValue(ds) == DecimalPrefix(ds, Len(ds))

RECURSIVE Pow10(_)
Pow10(k) == IF k = 0 THEN 1 ELSE 10 * Pow10(k - 1)

(***************************************************************************)
(* parse_input                                                             *)
(***************************************************************************)
NoQuantity == [n |-> 0, d |-> 0]

ParseFailure(msg) ==
    [quantity |-> NoQuantity, unit |-> <<>>, food_name |-> <<>>, parse_error |-> msg]

ParseSuccess(quantity, unit, food_name) ==
    [quantity |-> quantity, unit |-> unit, food_name |-> food_name, parse_error |-> "None"]

DefaultQuantity == [n |-> 1, d |-> 1]

DefaultUnit == <<"g">>

\* measurements_str.split("/")[-1].strip(): the last alternative instead of the first
last_measurement(measurements_str) ==
    strip(split_slash(measurements_str)[Len(split_slash(measurements_str))])

\* the measurement text as it is, not split at "/"
whole_measurement(measurements_str) == strip(measurements_str)

\* measurements_str.split("/")[0].strip()
first_measurement(measurements_str) == strip(split_slash(measurements_str)[1])

\* re.match(r"(\d+/\d+|\d*\.?\d+)\s*(\w+)?", s): anchored at the start of s only.
\* The first alternative is tried first; the tail \s*(\w+)? can always match, so
\* the first alternative that matches is the one taken.  unit = <<>> is the
\* unmatched optional group (None).
match_pattern(s) ==
    LET n1   == RunLen(s, 1, DigitSet)
        n2   == RunLen(s, n1 + 2, DigitSet)
        alt1 == n1 >= 1 /\ n1 + 1 <= Len(s) /\ s[n1 + 1] = "/" /\ n2 >= 1
        frac == n1 + 1 <= Len(s) /\ s[n1 + 1] = "." /\ n2 >= 1
        qlen == IF alt1 \/ frac THEN n1 + 1 + n2 ELSE n1
        sp   == RunLen(s, qlen + 1, Whitespace)
        wl   == RunLen(s, qlen + sp + 1, WordSet)
    IN  IF qlen = 0
        THEN [matched |-> FALSE, quantity_str |-> <<>>, unit |-> <<>>]
        ELSE [matched |-> TRUE,
              quantity_str |-> Slice(s, 1, qlen),
              unit |-> Slice(s, qlen + sp + 1, qlen + sp + wl)]

\* a Python 3 decimal integer literal: no leading zero unless it is all zeros
IsIntLiteral(ds) == ds # <<>> /\ (ds[1] = "0" => \A i \in DOMAIN ds : ds[i] = "0")

\* eval(quantity_str) if "/" in quantity_str else float(quantity_str);
\* raised = TRUE when the conversion raises (SyntaxError, ZeroDivisionError)
quantity_of(quantity_str) ==
    IF \E i \in DOMAIN quantity_str : quantity_str[i] = "/"
    THEN LET k   == FindChar(quantity_str, 1, "/")
             num == Slice(quantity_str, 1, k - 1)
             den == Slice(quantity_str, k + 1, Len(quantity_str))
         IN  IF ~IsIntLiteral(num) \/ ~IsIntLiteral(den) \/ DecimalValue(den) = 0
             THEN [raised |-> TRUE, value |-> NoQuantity, by |-> "eval"]
             ELSE [raised |-> FALSE,
                   value |-> [n |-> DecimalValue(num), d |-> DecimalValue(den)],
                   by |-> "eval"]
    ELSE LET k    == FindChar(quantity_str, 1, ".")
             whole == Slice(quantity_str, 1, k - 1)
             part  == Slice(quantity_str, k + 1, Len(quantity_str))
         IN  [raised |-> FALSE,
              value |-> [n |-> DecimalValue(whole \o part), d |-> Pow10(Len(part))],
              by |-> "float"]

\* the one element of a singleton set; binding a value through a set evaluates
\* it once
The(S) == CHOOSE x \in S : TRUE

\* the measurement without its test quantity <= 0
parse_matched_any_quantity(m, q, food_name) ==
    IF q.raised THEN ParseFailure("Failed to parse quantity")
    ELSE IF food_name = <<>> THEN ParseFailure("No food name provided")
    ELSE ParseSuccess(q.value, IF m.unit # <<>> THEN lower(m.unit) ELSE DefaultUnit, food_name)

\* lines 241-249: the quantity and the unit of a matched measurement
parse_matched(m, q, food_name) ==
    IF q.raised THEN ParseFailure("Failed to parse quantity")
    ELSE IF q.value.n <= 0 THEN ParseFailure("Quantity must be positive")
    ELSE IF food_name = <<>> THEN ParseFailure("No food name provided")
    ELSE ParseSuccess(q.value, IF m.unit # <<>> THEN lower(m.unit) ELSE DefaultUnit, food_name)

\* lines 238-251: the pattern applied to the first measurement
parse_first(first, food_name) ==
    The({IF ~m.matched THEN ParseFailure("Failed to parse measurement")
         ELSE The({parse_matched(m, q, food_name) : q \in {quantity_of(m.quantity_str)}}) :
            m \in {match_pattern(first)}})

\* the measurement branch of parse_input (lines 234-251)
parse_measurement(measurements_str, food_name) ==
    The({parse_first(first, food_name) : first \in {first_measurement(measurements_str)}})

\* lines 230-256: the defaults when there is no measurement text, the
\* measurement branch otherwise
parse_split(measurements_str, food_name) ==
    IF measurements_str = <<>>
    THEN IF food_name = <<>> THEN ParseFailure("No food name provided")
         ELSE ParseSuccess(DefaultQuantity, DefaultUnit, food_name)
    ELSE parse_measurement(measurements_str, food_name)

\* lines 216-229: the query split at its last space
parse_stripped(q) ==
    IF q = <<>> THEN ParseFailure("Empty query")
    ELSE The({IF last_space_idx = 0
              THEN parse_split(<<>>, q)
              ELSE The({parse_split(measurements_str, food_name) :
                          measurements_str \in {strip(Slice(q, 1, last_space_idx - 1))},
                          food_name \in {strip(Slice(q, last_space_idx + 1, Len(q)))}}) :
                last_space_idx \in {rfind_space(q)}})

parse_input(raw) == The({parse_stripped(q) : q \in {strip(raw)}})

(***************************************************************************)
(* Exact arithmetic on the quantities (floats of the code, as rationals)   *)
(***************************************************************************)
RECURSIVE GCD(_, _)
GCD(a, b) == IF b = 0 THEN a ELSE GCD(b, a % b)

Rat(n, d) == LET g == GCD(n, d) IN IF g = 0 THEN [n |-> 0, d |-> 1] ELSE [n |-> n \div g, d |-> d \div g]

RatMul(a, b) == Rat(a.n * b.n, a.d * b.d)

RatEq(a, b) == a.n * b.d = b.n * a.d

Zero == [n |-> 0, d |-> 1]

(***************************************************************************)
(* get_nutrition_info: constants and return values                         *)
(***************************************************************************)
ZERO_NUTRITION ==
    [calories |-> Zero, carbohydrates |-> Zero, protein |-> Zero, total_fat |-> Zero]

NUTRIENT_MAP == [calories |-> 1008, total_fat |-> 1004, protein |-> 1003, carbohydrates |-> 1005]

\* the value of the one key of a critical-error result
ErrorResult(msg) == [error |-> msg]

MissingKeyError == ErrorResult("USDA_FOOD_API_KEY not found in environment variables")

\* a request failure handled as a non-critical issue
RequestSoftFailed(s) == ZERO_NUTRITION

\* except requests.exceptions.RequestException at a call site (lines 312, 328)
RequestFailed(s) ==
    ErrorResult(IF s = "search" THEN "API search request failed"
                ELSE "API details request failed")

\* except json.JSONDecodeError at a call site (lines 314, 330)
DecodeFailed(s) ==
    ErrorResult(IF s = "search" THEN "Failed to decode search JSON"
                ELSE "Failed to decode details JSON")

\* no outermost handler: the exception reaches the caller
UnexpectedRaised == [raised |-> "Unexpected error in get_nutrition_info"]

\* the outermost except Exception (line 352)
UnexpectedError == ErrorResult("Unexpected error in get_nutrition_info")

NotReturned == [pending |-> TRUE]

\* the validation without its query.strip() test
InvalidQueryNoStrip(q) == q.type # "str" \/ q.text = <<>>

\* not query or not isinstance(query, str) or not query.strip()
InvalidQuery(q) == q.type # "str" \/ q.text = <<>> \/ strip(q.text) = <<>>

\* API_KEY is None: an empty credential passes
KeyIsNone(k) == k = "unset"

\* not API_KEY: the variable is unset (None) or set to the empty string
KeyMissing(k) == k \in {"unset", "empty"}

(***************************************************************************)
(* make_request_with_retry                                                 *)
(***************************************************************************)
max_retries == 3

RetryableStatus == {500, 502, 503, 504}

\* response.raise_for_status() raises HTTPError for 4xx and 5xx
IsHTTPError(o) == o.kind = "response" /\ o.status >= 400 /\ o.status < 600

IsSuccess(o) == o.kind = "response" /\ ~IsHTTPError(o)

\* every HTTPError is swallowed, whatever its status
IsRetryableAnyStatus(o) == IsHTTPError(o) \/ o.kind \in {"Timeout", "ConnectionError"}

\* the attempt's exception is swallowed and the loop goes on (lines 199-204)
IsRetryable(o) ==
    \/ IsHTTPError(o) /\ o.status \in RetryableStatus
    \/ o.kind \in {"Timeout", "ConnectionError"}

\* the delay is taken after the last attempt as well
AttemptVerdictSleepAlways(o, done) ==
    IF IsSuccess(o) THEN "return"
    ELSE IF ~IsRetryable(o) THEN "raise"
    ELSE "sleep"

\* the loop gives up one pass early
AttemptVerdictShort(o, done) ==
    IF IsSuccess(o) THEN "return"
    ELSE IF ~IsRetryable(o) THEN "raise"
    ELSE IF done < max_retries - 2 THEN "sleep"
    ELSE "raise"

\* what one pass of the loop body does with the outcome o of requests.get, when
\* `done` attempts were made before it: return the response, raise, or sleep
AttemptVerdict(o, done) ==
    IF IsSuccess(o) THEN "return"
    ELSE IF ~IsRetryable(o) THEN "raise"
    ELSE IF done < max_retries - 1 THEN "sleep"
    ELSE "raise"

(***************************************************************************)
(* convert_to_grams, the scaling loop and get_simple_nutrition             *)
(***************************************************************************)
conversions ==
    [g |-> [n |-> 1, d |-> 1], kg |-> [n |-> 1000, d |-> 1], mg |-> [n |-> 1, d |-> 1000],
     ml |-> [n |-> 1, d |-> 1], l |-> [n |-> 1000, d |-> 1],
     oz |-> [n |-> 283495, d |-> 10000], lb |-> [n |-> 453592, d |-> 1000],
     tsp |-> [n |-> 5, d |-> 1], tbsp |-> [n |-> 15, d |-> 1], cup |-> [n |-> 240, d |-> 1]]

\* the unit, a sequence of characters, as the key of the table it spells
UnitKey(unit) ==
    IF unit = <<"g">> THEN "g"
    ELSE IF unit = <<"k", "g">> THEN "kg"
    ELSE IF unit = <<"m", "g">> THEN "mg"
    ELSE IF unit = <<"m", "l">> THEN "ml"
    ELSE IF unit = <<"l">> THEN "l"
    ELSE IF unit = <<"o", "z">> THEN "oz"
    ELSE IF unit = <<"l", "b">> THEN "lb"
    ELSE IF unit = <<"t", "s", "p">> THEN "tsp"
    ELSE IF unit = <<"t", "b", "s", "p">> THEN "tbsp"
    ELSE IF unit = <<"c", "u", "p">> THEN "cup"
    ELSE "?"

\* the table looked up with the unit as it is written
convert_to_grams_as_written(quantity, unit) ==
    LET u == UnitKey(IF unit # <<>> THEN unit ELSE DefaultUnit)
    IN  RatMul(quantity, IF u \in DOMAIN conversions THEN conversions[u] ELSE [n |-> 1, d |-> 1])

convert_to_grams(quantity, unit) ==
    LET u == UnitKey(lower(IF unit # <<>> THEN unit ELSE DefaultUnit))
    IN  RatMul(quantity, IF u \in DOMAIN conversions THEN conversions[u] ELSE [n |-> 1, d |-> 1])

\* an entry of foodNutrients makes the scaling loop raise: float() of its amount
\* fails (line 346)
EntryRaises(e) == e.has_amount /\ ~e.amount_numeric

\* the division of integers that drops the remainder
scale_factor_floor(grams) == [n |-> (grams.n \div grams.d) \div 100, d |-> 1]

\* scale_factor = total_grams / 100 (line 343)
scale_factor_of(grams) == RatMul(grams, [n |-> 1, d |-> 100])

\* lines 344-346: the loop that overwrites, in the list itself, the amount of
\* every entry that carries one with amount * scale_factor
scaled(nutrition_per_100g, scale_factor) ==
    [i \in DOMAIN nutrition_per_100g |->
        IF nutrition_per_100g[i].has_amount
        THEN [nutrition_per_100g[i] EXCEPT !.amount = RatMul(@, scale_factor)]
        ELSE nutrition_per_100g[i]]

\* the entries the loop of lines 344-346 gets through: all of them, or those
\* before the first whose amount float() cannot read
LoopReach(nutrition_per_100g) ==
    IF \E i \in DOMAIN nutrition_per_100g : EntryRaises(nutrition_per_100g[i])
    THEN (CHOOSE i \in DOMAIN nutrition_per_100g :
             /\ EntryRaises(nutrition_per_100g[i])
             /\ \A j \in 1..(i - 1) : ~EntryRaises(nutrition_per_100g[j])) - 1
    ELSE Len(nutrition_per_100g)

\* the list as the loop leaves it
scaled_in_place(nutrition_per_100g, scale_factor) ==
    [i \in DOMAIN nutrition_per_100g |->
        IF i <= LoopReach(nutrition_per_100g)
        THEN scaled(nutrition_per_100g, scale_factor)[i]
        ELSE nutrition_per_100g[i]]

\* float(nutrient.get('amount', 0)) of an entry (line 285)
AmountOf(e) == IF e.has_amount THEN e.amount ELSE Zero

\* temp_nutrition.get(name, 0.0): the amount of the last entry whose id is
\* NUTRIENT_MAP[name], or 0.0
NutrientValue(nutrition_list, name) ==
    LET hits == {i \in DOMAIN nutrition_list :
                    /\ nutrition_list[i].has_nutrient
                    /\ nutrition_list[i].id = NUTRIENT_MAP[name]}
    IN  IF hits = {} THEN Zero
        ELSE LET last == CHOOSE i \in hits : \A j \in hits : j <= i
             IN  AmountOf(nutrition_list[last])

\* a summary only when all four nutrients are listed
get_simple_nutrition_all_or_none(nutrition_list) ==
    IF \A name \in DOMAIN NUTRIENT_MAP :
          \E i \in DOMAIN nutrition_list :
              nutrition_list[i].has_nutrient /\ nutrition_list[i].id = NUTRIENT_MAP[name]
    THEN [calories      |-> NutrientValue(nutrition_list, "calories"),
          carbohydrates |-> NutrientValue(nutrition_list, "carbohydrates"),
          protein       |-> NutrientValue(nutrition_list, "protein"),
          total_fat     |-> NutrientValue(nutrition_list, "total_fat")]
    ELSE ZERO_NUTRITION

get_simple_nutrition(nutrition_list) ==
    [calories      |-> NutrientValue(nutrition_list, "calories"),
     carbohydrates |-> NutrientValue(nutrition_list, "carbohydrates"),
     protein       |-> NutrientValue(nutrition_list, "protein"),
     total_fat     |-> NutrientValue(nutrition_list, "total_fat")]

(***************************************************************************)
(* The external endpoints: what one requests.get can do, and the bodies    *)
(* response.json() can give                                                *)
(***************************************************************************)
Statuses == {200, 404, 500, 501, 502, 503, 504}

Outcomes ==
    {[kind |-> "response", status |-> s] : s \in Statuses}
        \cup {[kind |-> k, status |-> 0] : k \in {"Timeout", "ConnectionError", "TooManyRedirects"}}

\* bound on the number of entries of a foodNutrients list
MaxNutrients == 2

\* pageSize=1 of the search URL: the foods list has at most this many records
pageSize == 1

NoBody == [received |-> FALSE]

\* the endpoints are not tied to one answer
NoSource == [fixed |-> FALSE]

FoodRecords == {[has_fdcId |-> TRUE, fdcId |-> 7], [has_fdcId |-> FALSE, fdcId |-> 0]}

SeqsUpTo(S, k) == UNION {[1..m -> S] : m \in 0..k}

SearchBodies ==
    {[received |-> TRUE, decodable |-> FALSE, is_dict |-> FALSE, has_foods |-> FALSE, foods |-> <<>>],
     [received |-> TRUE, decodable |-> TRUE, is_dict |-> FALSE, has_foods |-> FALSE, foods |-> <<>>],
     [received |-> TRUE, decodable |-> TRUE, is_dict |-> TRUE, has_foods |-> FALSE, foods |-> <<>>]}
        \cup {[received |-> TRUE, decodable |-> TRUE, is_dict |-> TRUE, has_foods |-> TRUE, foods |-> f] :
                 f \in SeqsUpTo(FoodRecords, pageSize)}

\* amounts per 100 g, as the floats float(nutrient['amount']) gives
Amounts == {[n |-> 3, d |-> 1]}

NutrientIds == {1008, 1005, 1003, 1004, 2000}

WellFormedEntries ==
    {[has_nutrient |-> TRUE, id |-> i, has_amount |-> TRUE, amount_numeric |-> TRUE, amount |-> a] :
        i \in NutrientIds, a \in Amounts}

\* an entry without the 'nutrient' key, one without 'amount', one whose amount is
\* no number
OddEntries ==
    {[has_nutrient |-> FALSE, id |-> 0, has_amount |-> TRUE, amount_numeric |-> TRUE,
      amount |-> [n |-> 3, d |-> 1]],
     [has_nutrient |-> TRUE, id |-> 1008, has_amount |-> FALSE, amount_numeric |-> FALSE, amount |-> Zero],
     [has_nutrient |-> TRUE, id |-> 1003, has_amount |-> TRUE, amount_numeric |-> FALSE, amount |-> Zero]}

NutrientEntries == WellFormedEntries \cup OddEntries

DetailBodies ==
    {[received |-> TRUE, decodable |-> FALSE, is_dict |-> FALSE, has_foodNutrients |-> FALSE, foodNutrients |-> <<>>],
     [received |-> TRUE, decodable |-> TRUE, is_dict |-> FALSE, has_foodNutrients |-> FALSE, foodNutrients |-> <<>>],
     [received |-> TRUE, decodable |-> TRUE, is_dict |-> TRUE, has_foodNutrients |-> FALSE, foodNutrients |-> <<>>]}
        \cup {[received |-> TRUE, decodable |-> TRUE, is_dict |-> TRUE, has_foodNutrients |-> TRUE, foodNutrients |-> l] :
                 l \in SeqsUpTo(NutrientEntries, MaxNutrients)}

(***************************************************************************)
(* The queries get_nutrition_info is called with                           *)
(***************************************************************************)
Text(s) == [type |-> "str", text |-> s]

Q_empty == <<>>

Q_blank == <<" ", " ">>

Q_Egg == <<"E", "g", "g">>

Q_75g_Butter == <<"7", "5", "g", " ", "B", "u", "t", "t", "e", "r">>

Q_half_cup_Flour == <<"1", "/", "2", " ", "c", "u", "p", " ", "F", "l", "o", "u", "r">>

Q_50g_2oz_sultanas == <<"5", "0", "g", "/", "2", "o", "z", " ", "s", "u", "l", "t", "a", "n", "a", "s">>

Q_Olive_Oil == <<"O", "l", "i", "v", "e", " ", "O", "i", "l">>

Q_0g_Butter == <<"0", "g", " ", "B", "u", "t", "t", "e", "r">>

Q_75g == <<"7", "5", "g">>

Q_2_Eggs == <<"2", " ", "E", "g", "g", "s">>

Q_neg5g_Butter == <<"-", "5", "g", " ", "B", "u", "t", "t", "e", "r">>

Q_1_over_0_cup_Flour == <<"1", "/", "0", " ", "c", "u", "p", " ", "F", "l", "o", "u", "r">>

SpecQueries ==
    {[type |-> "NoneType", text |-> <<>>], [type |-> "int", text |-> <<>>]}
        \cup {Text(s) : s \in {Q_empty, Q_blank, Q_Egg, Q_75g_Butter, Q_50g_2oz_sultanas,
                                Q_Olive_Oil, Q_0g_Butter, Q_75g, Q_neg5g_Butter}}

(***************************************************************************)
(* get_nutrition_info as a state machine: one step up to each outbound     *)
(* request, one per request with the handling that follows it, one per     *)
(* sleep                                                                   *)
(***************************************************************************)
NotParsed == ParseFailure("not called")

\* requests.get of get_random_recipe has not been called
NoResponse == [kind |-> "none"]

\* get_random_recipe is not running
NoRecipe ==
    /\ count = 0
    /\ simplified_meals = <<>>
    /\ response = NoResponse
    /\ recipe_requests = 0
    /\ recipe_pc = "idle"

Idle ==
    /\ site = "none"
    /\ attempt = 0
    /\ hist = <<>>
    /\ requests = [search |-> 0, detail |-> 0]
    /\ sleeps = [search |-> 0, detail |-> 0]
    /\ parsed = NotParsed
    /\ search_results = NoBody
    /\ food_details = NoBody
    /\ total_grams = NoQuantity
    /\ result = NotReturned
    /\ NoRecipe

\* one invocation on its own: the environment is the one line 166 reads, the
\* endpoints answer as they please
OneCall ==
    /\ os_environ = API_KEY
    /\ dotenv_file = "unset"
    /\ usda = NoSource
    /\ calls = <<>>

Init ==
    /\ query \in SpecQueries
    /\ API_KEY \in {"unset", "empty", "set"}
    /\ pc = "start"
    /\ Idle
    /\ OneCall

Return(r) ==
    /\ result' = r
    /\ pc' = "done"

\* lines 164-181 and 300-304: validation, the credential, parse_input
Start ==
    /\ pc = "start"
    /\ IF InvalidQuery(query)
       THEN Return(ZERO_NUTRITION) /\ UNCHANGED <<site, parsed>>
       ELSE IF KeyMissing(API_KEY)
       THEN Return(MissingKeyError) /\ UNCHANGED <<site, parsed>>
       ELSE LET p == parse_input(query.text)
            IN  /\ parsed' = p
                /\ IF p.parse_error # "None"
                   THEN Return(ZERO_NUTRITION) /\ UNCHANGED site
                   ELSE pc' = "request" /\ site' = "search" /\ UNCHANGED result
    /\ UNCHANGED <<query, API_KEY, attempt, hist, requests, sleeps, search_results, food_details,
                   total_grams>>
    /\ UNCHANGED process_vars
    /\ UNCHANGED recipe_vars

\* the first record is taken without the test of line 317
AfterSearchIndexed(body) ==
    IF ~body.is_dict THEN UnexpectedError
    ELSE IF ~body.has_foods \/ body.foods = <<>> THEN UnexpectedError
    ELSE IF ~body.foods[1].has_fdcId THEN UnexpectedError
    ELSE NotReturned

\* the detail request is made whatever the search found
AfterSearchAlwaysDetail(body) ==
    IF ~body.is_dict THEN UnexpectedError
    ELSE NotReturned

\* what the code after a decoded search response returns; NotReturned: it goes on
\* to the detail request (lines 317-320)
AfterSearch(body) ==
    IF ~body.is_dict THEN UnexpectedError
    ELSE IF ~body.has_foods \/ body.foods = <<>> THEN ZERO_NUTRITION
    ELSE IF ~body.foods[1].has_fdcId THEN UnexpectedError
    ELSE NotReturned

\* a detail response without nutrient entries is an error
AfterDetailNoDataError(body, grams) ==
    IF ~body.is_dict THEN UnexpectedError
    ELSE IF grams.n <= 0 THEN ZERO_NUTRITION
    ELSE IF ~body.has_foodNutrients \/ body.foodNutrients = <<>> THEN UnexpectedError
    ELSE IF \E i \in DOMAIN body.foodNutrients : EntryRaises(body.foodNutrients[i])
    THEN UnexpectedError
    ELSE get_simple_nutrition(scaled(body.foodNutrients, scale_factor_of(grams)))

\* what the code after a decoded detail response returns, total_grams (line
\* 334) being grams (lines 335-350)
AfterDetail(body, grams) ==
    IF ~body.is_dict THEN UnexpectedError
    ELSE IF grams.n <= 0 THEN ZERO_NUTRITION
    ELSE IF ~body.has_foodNutrients \/ body.foodNutrients = <<>> THEN ZERO_NUTRITION
    ELSE IF \E i \in DOMAIN body.foodNutrients : EntryRaises(body.foodNutrients[i])
    THEN UnexpectedError
    ELSE get_simple_nutrition(scaled(body.foodNutrients, scale_factor_of(grams)))

\* response.json() raised: requests raises its own JSONDecodeError, which is a
\* RequestException and a json.JSONDecodeError; the first handler that matches
\* depends on the installed requests
DecodeErrors(s) == {RequestFailed(s), DecodeFailed(s)}

\* one requests.get of the loop of make_request_with_retry, with outcome o
Request(o) ==
    /\ hist' = IF attempt = 0 THEN <<o>> ELSE Append(hist, o)
    /\ requests' = [requests EXCEPT ![site] = @ + 1]

SearchAttempt ==
    /\ pc = "request"
    /\ site = "search"
    /\ \E o \in Outcomes :
        /\ Request(o)
        /\ \/ /\ AttemptVerdict(o, attempt) = "sleep"
              /\ pc' = "sleep"
              /\ UNCHANGED <<site, attempt, search_results, result>>
           \/ /\ AttemptVerdict(o, attempt) = "raise"
              /\ Return(RequestFailed(site))
              /\ UNCHANGED <<site, attempt, search_results>>
           \/ /\ AttemptVerdict(o, attempt) = "return"
              /\ \E body \in SearchBodies :
                    /\ search_results' = body
                    /\ IF ~body.decodable
                       THEN /\ \E r \in DecodeErrors(site) : Return(r)
                            /\ UNCHANGED <<site, attempt>>
                       ELSE IF AfterSearch(body) # NotReturned
                       THEN /\ Return(AfterSearch(body))
                            /\ UNCHANGED <<site, attempt>>
                       ELSE /\ pc' = "request"
                            /\ site' = "detail"
                            /\ attempt' = 0
                            /\ UNCHANGED result
    /\ UNCHANGED <<query, API_KEY, sleeps, parsed, food_details, total_grams>>
    /\ UNCHANGED process_vars
    /\ UNCHANGED recipe_vars

DetailAttempt ==
    /\ pc = "request"
    /\ site = "detail"
    /\ \E o \in Outcomes :
        /\ Request(o)
        /\ \/ /\ AttemptVerdict(o, attempt) = "sleep"
              /\ pc' = "sleep"
              /\ UNCHANGED <<food_details, total_grams, result>>
           \/ /\ AttemptVerdict(o, attempt) = "raise"
              /\ Return(RequestFailed(site))
              /\ UNCHANGED <<food_details, total_grams>>
           \/ /\ AttemptVerdict(o, attempt) = "return"
              /\ \E body \in DetailBodies :
                    /\ food_details' = body
                    /\ IF ~body.decodable
                       THEN /\ \E r \in DecodeErrors(site) : Return(r)
                            /\ UNCHANGED total_grams
                       ELSE /\ total_grams' = convert_to_grams(parsed.quantity, parsed.unit)
                            /\ Return(AfterDetail(body, convert_to_grams(parsed.quantity, parsed.unit)))
    /\ UNCHANGED <<query, API_KEY, site, attempt, sleeps, parsed, search_results>>
    /\ UNCHANGED process_vars
    /\ UNCHANGED recipe_vars

\* lines 205-206: time.sleep(delay), then the next pass of the loop
Sleep ==
    /\ pc = "sleep"
    /\ sleeps' = [sleeps EXCEPT ![site] = @ + 1]
    /\ attempt' = attempt + 1
    /\ pc' = "request"
    /\ UNCHANGED <<query, API_KEY, site, hist, requests, parsed, search_results, food_details,
                   total_grams, result>>
    /\ UNCHANGED process_vars
    /\ UNCHANGED recipe_vars

Next == Start \/ SearchAttempt \/ DetailAttempt \/ Sleep

Spec == Init /\ [][Next]_vars

\* the invocation is one sequential thread: each requests.get is bounded by its
\* timeout and each sleep by its delay, so a step that can be taken is taken
FairSpec == Spec /\ WF_vars(Next)

(***************************************************************************)
(* parse_input on its own: the queries it is applied to                    *)
(***************************************************************************)
RECURSIVE Cat(_)
Cat(parts) == IF parts = <<>> THEN <<>> ELSE Head(parts) \o Cat(Tail(parts))

\* bound on the number of tokens of a generated query
MaxTokens == 4

\* bound on the number of words of a food name
MaxWords == 2

Tokens == {<<"1">>, <<"0">>, <<"/">>, <<".">>, <<" ">>, <<"g">>, <<"X">>}

TokenQueries == {Cat(ts) : ts \in SeqsUpTo(Tokens, MaxTokens)}

SP == <<" ">>

SLASH == <<"/">>

FoodWords ==
    {<<"B", "u", "t", "t", "e", "r">>, <<"F", "l", "o", "u", "r">>,
     <<"s", "u", "l", "t", "a", "n", "a", "s">>, <<"O", "i", "l">>}

\* food names of 1..MaxWords words, separated by one space
RECURSIVE FoodNamesOf(_)
FoodNamesOf(k) ==
    IF k = 1 THEN FoodWords
    ELSE FoodNamesOf(k - 1) \cup {n \o SP \o w : n \in FoodNamesOf(k - 1), w \in FoodWords}

FoodNames == FoodNamesOf(MaxWords) \cup {Q_Olive_Oil}

\* numerals with the value they denote
Numerals ==
    {[text |-> <<"1">>, value |-> [n |-> 1, d |-> 1]],
     [text |-> <<"2">>, value |-> [n |-> 2, d |-> 1]],
     [text |-> <<"5", "0">>, value |-> [n |-> 50, d |-> 1]],
     [text |-> <<"7", "5">>, value |-> [n |-> 75, d |-> 1]],
     [text |-> <<"1", ".", "5">>, value |-> [n |-> 15, d |-> 10]]}

IntNumerals == {x \in Numerals : x.value.d = 1}

\* unit tokens with their lowercase form
UnitTokens ==
    {[text |-> <<"g">>, lower |-> <<"g">>],
     [text |-> <<"o", "z">>, lower |-> <<"o", "z">>],
     [text |-> <<"c", "u", "p">>, lower |-> <<"c", "u", "p">>],
     [text |-> <<"C", "u", "p">>, lower |-> <<"c", "u", "p">>]}

NoUnit == [text |-> <<>>, lower |-> <<"g">>]

\* "a/b unit food"
FractionText(a, b, u, f) == a.text \o SLASH \o b.text \o SP \o u.text \o SP \o f

FractionQueries ==
    {FractionText(a, b, u, f) : a \in IntNumerals, b \in IntNumerals, u \in UnitTokens, f \in FoodNames}

\* "<number>[<unit>] food"
MeasuredText(x, u, f) == x.text \o u.text \o SP \o f

MeasuredQueries ==
    {MeasuredText(x, u, f) : x \in Numerals, u \in UnitTokens \cup {NoUnit}, f \in FoodNames}

\* "<number><unit>/<number><unit> food"
CompoundText(x1, u1, x2, u2, f) == x1.text \o u1.text \o SLASH \o x2.text \o u2.text \o SP \o f

CompoundQueries ==
    {CompoundText(x1, u1, x2, u2, f) :
        x1 \in Numerals, u1 \in UnitTokens, x2 \in Numerals, u2 \in UnitTokens, f \in FoodNames}

ExampleQueries == {Q_empty, Q_blank, Q_Egg, Q_75g_Butter, Q_half_cup_Flour,
                    Q_50g_2oz_sultanas, Q_Olive_Oil, Q_0g_Butter, Q_75g, Q_2_Eggs,
                    Q_neg5g_Butter, Q_1_over_0_cup_Flour}

ParseQueries ==
    ExampleQueries \cup TokenQueries \cup FoodNames \cup FractionQueries
        \cup MeasuredQueries \cup CompoundQueries

InitParse ==
    /\ query \in {Text(s) : s \in ParseQueries}
    /\ API_KEY = "set"
    /\ pc = "parse"
    /\ Idle
    /\ OneCall

\* input_quantity, input_unit, food_name, parse_error = parse_input(query)
ParseInput ==
    /\ pc = "parse"
    /\ parsed' = parse_input(query.text)
    /\ pc' = "parsed"
    /\ UNCHANGED <<query, API_KEY, site, attempt, hist, requests, sleeps,
                   search_results, food_details, total_grams, result>>
    /\ UNCHANGED process_vars
    /\ UNCHANGED recipe_vars

SpecParse == InitParse /\ [][ParseInput]_vars

(***************************************************************************)
(* Several invocations of get_nutrition_info in one process, one after the *)
(* other or interleaved (threads), against endpoints that answer the same  *)
(* every time.  What the invocations share is the process environment,     *)
(* which load_dotenv writes, the file ../.env and the endpoints.           *)
(***************************************************************************)
\* bound on the number of invocations
MaxCalls == 2

Calls == 1..MaxCalls

Q_150g_Butter == <<"1", "5", "0", "g", " ", "B", "u", "t", "t", "e", "r">>

CallQueries == {Q_blank, Q_75g_Butter, Q_150g_Butter}

Nutrient(id, n, d) ==
    [has_nutrient |-> TRUE, id |-> id, has_amount |-> TRUE, amount_numeric |-> TRUE,
     amount |-> [n |-> n, d |-> d]]

\* the nutrient lists of the food the queries name, per 100 g: the four tracked
\* nutrients and another, two of the four, none, and a list with an amount that
\* is no number
UsdaNutrients ==
    {<<Nutrient(1008, 717, 1), Nutrient(1004, 81, 1), Nutrient(1003, 17, 20),
       Nutrient(1005, 3, 50), Nutrient(2000, 16, 1)>>,
     <<Nutrient(1004, 81, 1), Nutrient(1008, 717, 1)>>,
     <<>>,
     <<Nutrient(1008, 717, 1),
       [has_nutrient |-> TRUE, id |-> 1003, has_amount |-> TRUE, amount_numeric |-> FALSE, amount |-> Zero]>>}

OK200 == [kind |-> "response", status |-> 200]

SearchBody(foods) ==
    [received |-> TRUE, decodable |-> TRUE, is_dict |-> TRUE, has_foods |-> TRUE, foods |-> foods]

DetailBody(l) ==
    [received |-> TRUE, decodable |-> TRUE, is_dict |-> TRUE, has_foodNutrients |-> TRUE,
     foodNutrients |-> l]

\* a detail endpoint that is not asked: the search has no match or fails
Unasked == [outcome |-> [kind |-> "response", status |-> 404], body |-> NoBody]

\* the answers of the two endpoints; the bodies are JSON objects
UsdaSources ==
    {[fixed |-> TRUE, search |-> [outcome |-> OK200, body |-> SearchBody(<<>>)], detail |-> Unasked],
     [fixed |-> TRUE, search |-> [outcome |-> [kind |-> "response", status |-> 404], body |-> NoBody],
      detail |-> Unasked]}
        \cup {[fixed |-> TRUE,
               search |-> [outcome |-> OK200, body |-> SearchBody(<<[has_fdcId |-> TRUE, fdcId |-> 7]>>)],
               detail |-> d] :
                 d \in {[outcome |-> OK200, body |-> DetailBody(l)] : l \in UsdaNutrients}
                        \cup {[outcome |-> [kind |-> "response", status |-> 503], body |-> NoBody]}}

\* the locals of an invocation that has not begun; entry_environ and after
\* record the environment it found and the invocations that had returned when
\* it began
NewCall(q) ==
    [query |-> q, pc |-> "start", entry_environ |-> "unread", after |-> {},
     API_KEY |-> "unread", site |-> "none", attempt |-> 0,
     requests |-> [search |-> 0, detail |-> 0], sleeps |-> [search |-> 0, detail |-> 0],
     parsed |-> NotParsed, search_results |-> NoBody, food_details |-> NoBody,
     total_grams |-> NoQuantity, result |-> NotReturned]

\* the variables of the single invocation, not used here
call_vars == <<query, API_KEY, pc, site, attempt, hist, requests, sleeps,
               parsed, search_results, food_details, total_grams, result>>

InitCalls ==
    /\ query = [type |-> "NoneType", text |-> <<>>]
    /\ API_KEY = "unset"
    /\ pc = "calls"
    /\ Idle
    /\ os_environ \in {"unset", "empty", "set"}
    /\ dotenv_file \in {"unset", "empty", "set"}
    /\ usda \in UsdaSources
    /\ calls \in [Calls -> {NewCall(Text(q)) : q \in CallQueries}]

\* load_dotenv('../.env') with override off: the variable is taken from the file
\* only when the environment does not have it
load_dotenv(environ, file) == IF environ = "unset" THEN file ELSE environ

\* line 165: load_dotenv writes the environment of the process
LoadDotenv(c) ==
    /\ calls[c].pc = "start"
    /\ os_environ' = load_dotenv(os_environ, dotenv_file)
    /\ calls' = [calls EXCEPT ![c] =
                    [@ EXCEPT !.pc = "loaded",
                              !.entry_environ = os_environ,
                              !.after = {d \in Calls : calls[d].pc = "done"}]]
    /\ UNCHANGED <<dotenv_file, usda>>
    /\ UNCHANGED call_vars
    /\ UNCHANGED recipe_vars

\* the environment as it was before load_dotenv
environ_get_before_load(c) == calls[c].entry_environ

\* os.environ.get("USDA_FOOD_API_KEY") of line 166
environ_get(c) == os_environ

\* lines 166-304: the credential is read, then validation, the credential test
\* and parse_input
CallStart(c) ==
    /\ calls[c].pc = "loaded"
    /\ calls' = [calls EXCEPT ![c] =
          LET me  == [calls[c] EXCEPT !.API_KEY = environ_get(c)]
          IN  IF InvalidQuery(me.query)
              THEN [me EXCEPT !.pc = "done", !.result = ZERO_NUTRITION]
              ELSE IF KeyMissing(me.API_KEY)
              THEN [me EXCEPT !.pc = "done", !.result = MissingKeyError]
              ELSE LET p == parse_input(me.query.text)
                   IN  IF p.parse_error # "None"
                       THEN [me EXCEPT !.parsed = p, !.pc = "done", !.result = ZERO_NUTRITION]
                       ELSE [me EXCEPT !.parsed = p, !.pc = "request", !.site = "search"]]
    /\ UNCHANGED <<os_environ, dotenv_file, usda>>
    /\ UNCHANGED call_vars
    /\ UNCHANGED recipe_vars

\* one requests.get of make_request_with_retry at the call site the invocation
\* is at, and what follows the response: lines 311-320 after the search,
\* line 327 after the detail request
CallRequest(c) ==
    /\ calls[c].pc = "request"
    /\ calls' = [calls EXCEPT ![c] =
          LET me   == calls[c]
              o    == usda[me.site].outcome
              body == usda[me.site].body
              sent == [me EXCEPT !.requests[me.site] = @ + 1]
          IN  IF AttemptVerdict(o, me.attempt) = "sleep"
              THEN [sent EXCEPT !.pc = "sleep"]
              ELSE IF AttemptVerdict(o, me.attempt) = "raise"
              THEN [sent EXCEPT !.pc = "done", !.result = RequestFailed(me.site)]
              ELSE IF me.site = "search"
              THEN IF AfterSearch(body) # NotReturned
                   THEN [sent EXCEPT !.search_results = body, !.pc = "done",
                                     !.result = AfterSearch(body)]
                   ELSE [sent EXCEPT !.search_results = body, !.site = "detail", !.attempt = 0]
              ELSE [sent EXCEPT !.food_details = body, !.pc = "scale"]]
    /\ UNCHANGED <<os_environ, dotenv_file, usda>>
    /\ UNCHANGED call_vars
    /\ UNCHANGED recipe_vars

\* lines 205-206
CallSleep(c) ==
    /\ calls[c].pc = "sleep"
    /\ calls' = [calls EXCEPT ![c] =
                    [@ EXCEPT !.pc = "request", !.attempt = @ + 1,
                              !.sleeps[calls[c].site] = @ + 1]]
    /\ UNCHANGED <<os_environ, dotenv_file, usda>>
    /\ UNCHANGED call_vars
    /\ UNCHANGED recipe_vars

\* the locals of the invocation after lines 333-350: the scaling loop has
\* overwritten the amounts in the list of the decoded response
Scaled(me) ==
    LET grams == convert_to_grams(me.parsed.quantity, me.parsed.unit)
        body  == me.food_details
        loop  == /\ body.is_dict
                 /\ grams.n > 0
                 /\ body.has_foodNutrients
                 /\ body.foodNutrients # <<>>
    IN  [me EXCEPT !.total_grams = grams,
                   !.food_details =
                        IF loop
                        THEN [body EXCEPT !.foodNutrients =
                                            scaled_in_place(@, scale_factor_of(grams))]
                        ELSE body,
                   !.result = AfterDetail(body, grams),
                   !.pc = "done"]

\* the list that is overwritten is the one the endpoint answers with
CallScaleShared(c) ==
    /\ calls[c].pc = "scale"
    /\ calls' = [calls EXCEPT ![c] = Scaled(calls[c])]
    /\ usda' = [usda EXCEPT !.detail.body = Scaled(calls[c]).food_details]
    /\ UNCHANGED <<os_environ, dotenv_file>>
    /\ UNCHANGED call_vars
    /\ UNCHANGED recipe_vars

\* lines 333-350: the list that is overwritten belongs to the response this
\* invocation decoded
CallScale(c) ==
    /\ calls[c].pc = "scale"
    /\ calls' = [calls EXCEPT ![c] = Scaled(calls[c])]
    /\ UNCHANGED <<os_environ, dotenv_file, usda>>
    /\ UNCHANGED call_vars
    /\ UNCHANGED recipe_vars

NextCalls ==
    \E c \in Calls :
        LoadDotenv(c) \/ CallStart(c) \/ CallRequest(c) \/ CallSleep(c) \/ CallScale(c)

SpecCalls == InitCalls /\ [][NextCalls]_vars

(***************************************************************************)
(* convert_to_grams on its own: the quantities and the units it is applied *)
(* to                                                                      *)
(***************************************************************************)
ConvertQuantities ==
    {[n |-> 1, d |-> 1], [n |-> 2, d |-> 1], [n |-> 5, d |-> 1], [n |-> 75, d |-> 1],
     [n |-> 1, d |-> 2]}

\* the units of the table, as the table spells them
TableUnits ==
    {<<"g">>, <<"k", "g">>, <<"m", "g">>, <<"m", "l">>, <<"l">>, <<"o", "z">>, <<"l", "b">>,
     <<"t", "s", "p">>, <<"t", "b", "s", "p">>, <<"c", "u", "p">>}

\* unit arguments with their lowercase form: the units of the table, spellings
\* of them with capitals, units the table does not have, and no unit
ConvertUnits ==
    {[text |-> u, lower |-> u] : u \in TableUnits}
        \cup {[text |-> <<"G">>, lower |-> <<"g">>],
              [text |-> <<"K", "g">>, lower |-> <<"k", "g">>],
              [text |-> <<"M", "G">>, lower |-> <<"m", "g">>],
              [text |-> <<"m", "L">>, lower |-> <<"m", "l">>],
              [text |-> <<"L">>, lower |-> <<"l">>],
              [text |-> <<"O", "z">>, lower |-> <<"o", "z">>],
              [text |-> <<"L", "B">>, lower |-> <<"l", "b">>],
              [text |-> <<"T", "s", "p">>, lower |-> <<"t", "s", "p">>],
              [text |-> <<"T", "B", "S", "P">>, lower |-> <<"t", "b", "s", "p">>],
              [text |-> <<"C", "u", "p">>, lower |-> <<"c", "u", "p">>]}
        \cup {[text |-> u, lower |-> u] :
                 u \in {<<"c", "u", "p", "s">>, <<"x">>, <<"g", "r", "a", "m", "s">>,
                        <<"p", "i", "n", "c", "h">>, <<"t", "b", "s">>, <<"o", "z", "s">>}}
        \cup {NoUnit}

InitConvert ==
    /\ query = Text(Q_Egg)
    /\ API_KEY = "set"
    /\ pc = "convert"
    /\ site = "none"
    /\ attempt = 0
    /\ hist = <<>>
    /\ requests = [search |-> 0, detail |-> 0]
    /\ sleeps = [search |-> 0, detail |-> 0]
    /\ parsed \in {ParseSuccess(q, u.text, Q_Egg) : q \in ConvertQuantities, u \in ConvertUnits}
    /\ search_results = NoBody
    /\ food_details = NoBody
    /\ total_grams = NoQuantity
    /\ result = NotReturned
    /\ NoRecipe
    /\ OneCall

\* total_grams = convert_to_grams(input_quantity, input_unit)
ConvertToGrams ==
    /\ pc = "convert"
    /\ total_grams' = convert_to_grams(parsed.quantity, parsed.unit)
    /\ pc' = "converted"
    /\ UNCHANGED <<query, API_KEY, site, attempt, hist, requests, sleeps, parsed,
                   search_results, food_details, result>>
    /\ UNCHANGED process_vars
    /\ UNCHANGED recipe_vars

SpecConvert == InitConvert /\ [][ConvertToGrams]_vars

(***************************************************************************)
(* get_random_recipe (specification FairSpecRecipe)                        *)
(*                                                                         *)
(* A JSON value of a meal's field is absent from the object, null, a       *)
(* string or a number other than 0.                                        *)
(***************************************************************************)
Absent == [type |-> "absent"]

Null == [type |-> "null"]

Number == [type |-> "number"]

Str(s) == [type |-> "str", text |-> s]

\* dict.get(key, ""): the default "" stands for a key the object lacks
get(v) == IF v = Absent THEN Str(<<>>) ELSE v

\* dict.get(key, "") or "": a falsy value (None, "") gives ""
get_or_empty(v) == IF v \in {Absent, Null, Str(<<>>)} THEN Str(<<>>) ELSE v

\* str.replace("\r\n", "<br>")
RECURSIVE replace_crlf(_)
replace_crlf(s) ==
    IF s = <<>> THEN <<>>
    ELSE IF Len(s) >= 2 /\ s[1] = "\r" /\ s[2] = "\n"
         THEN <<"<", "b", "r", ">">> \o replace_crlf(Tail(Tail(s)))
         ELSE <<s[1]>> \o replace_crlf(Tail(s))

\* range(1, 21): the ingredient slots strIngredient1 .. strIngredient20
last_slot == 20

\* what slot i of the meal holds; a slot the object lacks has neither key
slot(meal, i) ==
    IF i <= Len(meal.slots) THEN meal.slots[i]
    ELSE [strIngredient |-> Absent, strMeasure |-> Absent]

\* the loop of lines 115-121 from slot i on: the "measure ingredient" lines up
\* to the first slot without an ingredient; raised = TRUE when a .strip() is
\* called on a value that is not a string (None or a number: AttributeError)
RECURSIVE ingredients_from(_, _)
ingredients_from(meal, i) ==
    IF i > last_slot THEN [raised |-> FALSE, list |-> <<>>]
    ELSE IF get(slot(meal, i).strIngredient).type # "str" \/ get(slot(meal, i).strMeasure).type # "str"
    THEN [raised |-> TRUE, list |-> <<>>]
    ELSE IF strip(get(slot(meal, i).strIngredient).text) = <<>>
    THEN [raised |-> FALSE, list |-> <<>>]
    ELSE LET rest == ingredients_from(meal, i + 1)
         IN  [raised |-> rest.raised,
              list |-> <<strip(get(slot(meal, i).strMeasure).text) \o <<" ">>
                           \o strip(get(slot(meal, i).strIngredient).text)>> \o rest.list]

\* the pass adds nothing and the loop goes on
Skip == [outcome |-> "skip", meal |-> Absent]

\* the pass raises and the exception leaves get_random_recipe
Raise == [outcome |-> "raise", meal |-> Absent]

\* lines 105-122: the simplified meal of a meal that passed the test
simplify(meal) ==
    IF get(meal.strInstructions).type # "str" THEN Raise
    ELSE IF ingredients_from(meal, 1).raised THEN Raise
    ELSE [outcome |-> "append",
          meal |-> [idMeal |-> get(meal.idMeal),
                    strMeal |-> get(meal.strMeal),
                    strInstructions |-> Str(replace_crlf(get(meal.strInstructions).text)),
                    thumb |-> get_or_empty(meal.strMealThumb),
                    strYoutube |-> get(meal.strYoutube),
                    source |-> get_or_empty(meal.strSource),
                    ingredients |-> ingredients_from(meal, 1).list]]

\* the test of line 103 without its thumb half
check_source_only(meal) ==
    LET source == get_or_empty(meal.strSource)
    IN  IF source.type # "str" THEN Raise
        ELSE IF strip(source.text) = <<>> THEN Skip
        ELSE simplify(meal)

\* lines 101-103: source.strip() and thumb.strip(), in this order; the second
\* is not evaluated when the first is empty
check_source_and_thumb(meal) ==
    LET source == get_or_empty(meal.strSource)
        thumb  == get_or_empty(meal.strMealThumb)
    IN  IF source.type # "str" THEN Raise
        ELSE IF strip(source.text) = <<>> THEN Skip
        ELSE IF thumb.type # "str" THEN Raise
        ELSE IF strip(thumb.text) = <<>> THEN Skip
        ELSE simplify(meal)

\* lines 96-99: the first element of data["meals"], when there is one
decoded(data) ==
    IF data.json = "undecodable" THEN Raise
    ELSE IF data.json = "null" THEN Raise
    ELSE IF data.json = "list" THEN Skip
    ELSE IF data.meals \in {Absent, Null} THEN Skip
    ELSE IF data.meals.items = <<>> THEN Skip
    ELSE IF data.meals.items[1].type # "dict" THEN Skip
    ELSE check_source_and_thumb(data.meals.items[1])

\* one pass of the loop body on the answer r of requests.get
iteration(r) ==
    IF r.kind = "exception" THEN Raise
    ELSE IF r.status_code # 200 THEN Skip
    ELSE decoded(r.body)

(***************************************************************************)
(* What the recipe endpoint can answer.                                    *)
(***************************************************************************)
MaxCount == 2

MaxRequests == 3

\* the rest of a meal: instructions and ingredient slots
MealRests ==
    {[strInstructions |-> Str(<<"a", "\r", "\n", "b">>),
      slots |-> <<[strIngredient |-> Str(<<"E", "g", "g">>), strMeasure |-> Str(<<"2", " ">>)], [strIngredient |-> Str(<<>>), strMeasure |-> Str(<<" ">>)]>>],
     [strInstructions |-> Absent,
      slots |-> <<>>],
     [strInstructions |-> Null,
      slots |-> <<>>],
     [strInstructions |-> Str(<<"a">>),
      slots |-> <<[strIngredient |-> Str(<<"E", "g", "g">>), strMeasure |-> Str(<<"2">>)], [strIngredient |-> Null, strMeasure |-> Null]>>]}

Meals ==
    {[type |-> "dict", idMeal |-> Str(<<"1">>), strMeal |-> Str(<<"P", "i", "e">>),
      strYoutube |-> Absent, strSource |-> s, strMealThumb |-> t,
      strInstructions |-> x.strInstructions, slots |-> x.slots] :
        s \in {Absent, Null, Number, Str(<<>>), Str(<<" ">>), Str(<<"h", "t", "t", "p">>)},
        t \in {Absent, Null, Number, Str(<<>>), Str(<<" ">>), Str(<<"h", "t", "t", "p">>)},
        x \in MealRests}

RecipeBodies ==
    {[json |-> "undecodable"], [json |-> "null"], [json |-> "list"]}
    \cup {[json |-> "dict", meals |-> m] : m \in {Absent, Null, [type |-> "list", items |-> <<>>], [type |-> "list", items |-> <<Null>>]}}
    \cup {[json |-> "dict", meals |-> [type |-> "list", items |-> <<m>>]] : m \in Meals}

Responses ==
    {[kind |-> "exception"]}
    \cup {[kind |-> "response", status_code |-> s, body |-> [json |-> "unread"]] : s \in {404, 500}}
    \cup {[kind |-> "response", status_code |-> 200, body |-> b] : b \in RecipeBodies}

\* what a pass of the loop makes of each answer
Passes == [r \in Responses |-> iteration(r)]

\* the answers that add a meal
AppendingResponses == {r \in Responses : Passes[r].outcome = "append"}

InitRecipe ==
    /\ query = [type |-> "NoneType", text |-> <<>>]
    /\ API_KEY = "unset"
    /\ pc = "recipe"
    /\ site = "none"
    /\ attempt = 0
    /\ hist = <<>>
    /\ requests = [search |-> 0, detail |-> 0]
    /\ sleeps = [search |-> 0, detail |-> 0]
    /\ parsed = NotParsed
    /\ search_results = NoBody
    /\ food_details = NoBody
    /\ total_grams = NoQuantity
    /\ result = NotReturned
    /\ OneCall
    /\ count \in -1 .. MaxCount
    /\ simplified_meals = <<>>
    /\ response = NoResponse
    /\ recipe_requests = 0
    /\ recipe_pc = "loop"

\* one pass of the while loop of line 93 in which requests.get gives r
LoopPass(r) ==
    /\ recipe_pc = "loop"
    /\ Len(simplified_meals) < count
    /\ response' = r
    /\ recipe_requests' = IF recipe_requests < MaxRequests THEN recipe_requests + 1 ELSE MaxRequests
    /\ \/ /\ Passes[r].outcome = "raise"
          /\ recipe_pc' = "raised"
          /\ UNCHANGED simplified_meals
       \/ /\ Passes[r].outcome = "skip"
          /\ UNCHANGED <<recipe_pc, simplified_meals>>
       \/ /\ Passes[r].outcome = "append"
          /\ simplified_meals' = Append(simplified_meals, Passes[r].meal)
          /\ UNCHANGED recipe_pc
    /\ UNCHANGED count
    /\ UNCHANGED call_vars
    /\ UNCHANGED process_vars

\* requests.get answers with a meal that is added to the list
AppendingAnswer == \E r \in AppendingResponses : LoopPass(r)

\* line 126, reached when the test of line 93 fails
RecipeReturn ==
    /\ recipe_pc = "loop"
    /\ ~(Len(simplified_meals) < count)
    /\ recipe_pc' = "returned"
    /\ UNCHANGED <<count, simplified_meals, response, recipe_requests>>
    /\ UNCHANGED call_vars
    /\ UNCHANGED process_vars

NextRecipe == (\E r \in Responses : LoopPass(r)) \/ RecipeReturn

\* the call keeps running, and the endpoint answers again and again with a meal
\* that is added
FairSpecRecipe ==
    InitRecipe /\ [][NextRecipe]_vars /\ WF_vars(NextRecipe) /\ SF_vars(AppendingAnswer)

(***************************************************************************)
(* Properties of get_nutrition_info (specification Spec)                   *)
(***************************************************************************)
SummaryKeys == {"calories", "carbohydrates", "protein", "total_fat"}

IsSummary(r) == DOMAIN r = SummaryKeys

IsError(r) == DOMAIN r = {"error"}

Returned == pc = "done"

\* a query that is not a string, is empty, or has whitespace only
BlankQuery == query.type # "str" \/ \A i \in DOMAIN query.text : query.text[i] \in Whitespace

NoRequests == requests = [search |-> 0, detail |-> 0] /\ sleeps = [search |-> 0, detail |-> 0]

\* the outcomes the retry loop is meant to retry, and the others
Transient(o) ==
    \/ o.kind \in {"Timeout", "ConnectionError"}
    \/ o.kind = "response" /\ o.status \in {500, 502, 503, 504}

Succeeded(o) == o.kind = "response" /\ o.status = 200

OtherHTTPError(o) == o.kind = "response" /\ o.status >= 400 /\ ~Transient(o)

AllTransient(h) == \A i \in DOMAIN h : Transient(h[i])

\* the call site hist belongs to: the detail call site once it has issued a request
HistSite == IF requests.detail > 0 THEN "detail" ELSE "search"

\* C1: whatever the endpoints do, get_nutrition_info eventually returns, and what
\* it returns has exactly the four keys of a summary or exactly the key error;
\* until then nothing is handed to the caller, and no exception ever reaches it.
C1_ReturnsSummaryOrError ==
    /\ [](Returned => IsSummary(result) \/ IsError(result))
    /\ [](~Returned => result = NotReturned)
    /\ <>Returned

\* a structurally malformed body ended in the error value
C1_Witness ==
    /\ Returned
    /\ food_details.received /\ food_details.decodable
    /\ \E i \in DOMAIN food_details.foodNutrients : EntryRaises(food_details.foodNutrients[i])
    /\ IsError(result)

\* C2 (as stated): with the credential not configured, every query gets the error
\* value naming the credential.
C2_MissingKeyAnyQuery ==
    Returned /\ API_KEY # "set" => result = MissingKeyError

\* C2 (amended): with the credential not configured, every query that is a string
\* with a non-whitespace character gets the error value naming the credential,
\* and no request is issued; a blank query gets the zeroed summary.
C2_MissingKeyNonBlankQuery ==
    Returned /\ API_KEY # "set" =>
        /\ NoRequests
        /\ result = IF BlankQuery THEN ZERO_NUTRITION ELSE MissingKeyError

C2_Witness ==
    /\ Returned
    /\ API_KEY = "empty"
    /\ query = Text(Q_75g_Butter)
    /\ result = MissingKeyError

\* C3: a query that is empty, not a string or whitespace-only gets the zeroed
\* summary, before the credential is looked at and without parse_input or any
\* request.
C3_BlankQueryZeroed ==
    Returned /\ BlankQuery => result = ZERO_NUTRITION /\ NoRequests /\ parsed = NotParsed

C3_Witness ==
    /\ Returned
    /\ query = Text(Q_blank)
    /\ API_KEY = "unset"
    /\ result = ZERO_NUTRITION

\* C4: while the attempts of a call site have all failed with transient
\* conditions and fewer than three were made, the call site goes on to another
\* attempt; when an attempt within the first three then succeeds, the response
\* is returned to get_nutrition_info, which does not report a request failure and,
\* the body being well formed, goes on to the detail request (search) or returns
\* a summary.
C4_RetryThenSuccess ==
    /\ hist # <<>> /\ Len(hist) < 3 /\ AllTransient(hist) =>
          /\ pc \in {"sleep", "request"}
          /\ site = HistSite
          /\ result = NotReturned
    /\ /\ hist # <<>>
       /\ Len(hist) <= 3
       /\ Succeeded(hist[Len(hist)])
       /\ AllTransient(SubSeq(hist, 1, Len(hist) - 1))
       => LET body == IF HistSite = "search" THEN search_results ELSE food_details
          IN  /\ body.received
              /\ body.decodable => result # RequestFailed(HistSite)
              /\ body.decodable /\ body.is_dict =>
                    IF HistSite = "search"
                    THEN IF body.has_foods /\ body.foods # <<>>
                         THEN body.foods[1].has_fdcId =>
                                 pc = "request" /\ site = "detail" /\ result = NotReturned
                         ELSE Returned /\ result = ZERO_NUTRITION
                    ELSE (\A i \in DOMAIN body.foodNutrients : ~EntryRaises(body.foodNutrients[i]))
                            => Returned /\ IsSummary(result)

\* both call sites failed twice and succeeded at the third attempt, and a
\* populated summary came back
C4_Witness ==
    /\ Returned
    /\ requests = [search |-> 3, detail |-> 3]
    /\ hist = <<[kind |-> "Timeout", status |-> 0], [kind |-> "response", status |-> 503],
                [kind |-> "response", status |-> 200]>>
    /\ IsSummary(result)
    /\ result.calories # Zero

\* C5: an HTTP error status other than 500, 502, 503, 504 is the last attempt of
\* its call site: get_nutrition_info has returned the error value of that call
\* site, the call site issued as many requests as attempts are recorded (one for
\* a 404 at the first attempt), no sleep followed, and a failed search left the
\* detail call site without a request.
C5_NoRetryOnOtherStatus ==
    \A i \in DOMAIN hist :
        OtherHTTPError(hist[i]) =>
            /\ i = Len(hist)
            /\ Returned
            /\ IsError(result)
            /\ result = RequestFailed(site)
            /\ site = HistSite
            /\ requests[site] = i
            /\ sleeps[site] = i - 1
            /\ site = "search" => requests.detail = 0

C5_Witness ==
    /\ Returned
    /\ site = "search"
    /\ hist = <<[kind |-> "response", status |-> 404]>>
    /\ requests = [search |-> 1, detail |-> 0]
    /\ IsError(result)

\* C6: when three attempts of a call site have all failed with transient
\* conditions, no fourth is made and get_nutrition_info has returned the error
\* value of that call site, not a zeroed summary.
C6_RetriesExhausted ==
    Len(hist) >= 3 /\ AllTransient(hist) =>
        /\ Len(hist) = 3
        /\ Returned
        /\ IsError(result)
        /\ result = RequestFailed(site)
        /\ result # ZERO_NUTRITION
        /\ requests[site] = 3

C6_Witness ==
    /\ Returned
    /\ site = "detail"
    /\ hist = <<[kind |-> "Timeout", status |-> 0], [kind |-> "response", status |-> 502],
                [kind |-> "ConnectionError", status |-> 0]>>
    /\ IsError(result)

\* the queries whose measurement has the quantity zero, and those whose leading
\* token is no number (a minus sign is not part of the pattern, so a negative
\* quantity is one of these)
ZeroQuantityQueries == {Q_0g_Butter}

UnmatchedTokenQueries == {Q_neg5g_Butter, Q_Olive_Oil}

MeasurementRejected ==
    parsed.parse_error \in {"Quantity must be positive", "Failed to parse measurement"}

C11_WitnessUnmatched ==
    /\ Returned
    /\ query = Text(Q_neg5g_Butter)
    /\ parsed.parse_error = "Failed to parse measurement"
    /\ result = ZERO_NUTRITION

\* C12 (as stated): a query that is a measurement only ("75g") gets the zeroed
\* summary and its text is never looked up as a food name.
C12_MeasurementOnlyZeroed ==
    Returned /\ API_KEY = "set" /\ query = Text(Q_75g) =>
        /\ result = ZERO_NUTRITION
        /\ NoRequests
        /\ parsed.food_name # Q_75g

\* the search response was decoded to an object
SearchDecoded == search_results.received /\ search_results.decodable /\ search_results.is_dict

\* it has no matching food: the foods list is absent or empty
NoMatch == SearchDecoded /\ (~search_results.has_foods \/ search_results.foods = <<>>)

\* C14: once the search response is decoded and its foods list is absent or
\* empty, get_nutrition_info has returned the zeroed summary, and the detail call
\* site has neither issued a request nor received anything.
C14_NoMatchZeroed ==
    NoMatch =>
        /\ Returned
        /\ result = ZERO_NUTRITION
        /\ site = "search"
        /\ requests.detail = 0
        /\ sleeps.detail = 0
        /\ food_details = NoBody

\* an empty foods list, received at the second attempt
C14_Witness ==
    /\ Returned
    /\ NoMatch
    /\ search_results.has_foods
    /\ requests = [search |-> 2, detail |-> 0]
    /\ result = ZERO_NUTRITION

\* the detail response was decoded to an object
DetailDecoded == food_details.received /\ food_details.decodable /\ food_details.is_dict

\* its nutrient list is not empty and the scaling loop can read every amount
NutrientsListed ==
    /\ DetailDecoded
    /\ food_details.has_foodNutrients
    /\ food_details.foodNutrients # <<>>
    /\ \A i \in DOMAIN food_details.foodNutrients : ~EntryRaises(food_details.foodNutrients[i])

\* the external codes of the four tracked nutrients
TrackedCode ==
    [calories |-> 1008, carbohydrates |-> 1005, protein |-> 1003, total_fat |-> 1004]

\* the places of the nutrient list that list the code
Listings(code) ==
    {i \in DOMAIN food_details.foodNutrients :
        /\ food_details.foodNutrients[i].has_nutrient
        /\ food_details.foodNutrients[i].id = code}

\* x = amount * grams / 100, for fractions
IsScaled(x, amount, grams) ==
    x.d # 0 /\ x.n * (amount.d * grams.d * 100) = (amount.n * grams.n) * x.d

\* C15: for a non-empty nutrient list the value returned is a summary with all
\* four keys; a tracked nutrient the list has carries, under its own key, the
\* amount of its (last) listing scaled by total grams / 100 (0.0 when the listing
\* has no amount), and a tracked nutrient the list does not have is 0.0, whatever
\* the other three are.
C15_PartialResponsePopulated ==
    NutrientsListed =>
        /\ Returned
        /\ IsSummary(result)
        /\ \A name \in SummaryKeys :
              IF Listings(TrackedCode[name]) = {}
              THEN result[name] = Zero
              ELSE \E i \in Listings(TrackedCode[name]) :
                      /\ \A j \in Listings(TrackedCode[name]) : j <= i
                      /\ LET e == food_details.foodNutrients[i]
                         IN  IF e.has_amount
                             THEN /\ IsScaled(result[name], e.amount, total_grams)
                                  /\ result[name] # Zero
                             ELSE result[name] = Zero

\* energy and protein are listed, carbohydrate and fat are not
C15_Witness ==
    /\ Returned
    /\ NutrientsListed
    /\ Listings(1008) # {} /\ Listings(1003) # {}
    /\ Listings(1005) = {} /\ Listings(1004) = {}
    /\ query = Text(Q_75g_Butter)
    /\ result = [calories |-> [n |-> 9, d |-> 4], carbohydrates |-> Zero,
                 protein |-> [n |-> 9, d |-> 4], total_fat |-> Zero]

\* C17: once the detail response is decoded and its foodNutrients list is absent
\* or empty, get_nutrition_info has returned the zeroed summary, which is not an
\* error value.
C17_NoNutrientsZeroed ==
    DetailDecoded /\ (~food_details.has_foodNutrients \/ food_details.foodNutrients = <<>>) =>
        /\ Returned
        /\ result = ZERO_NUTRITION
        /\ ~IsError(result)

C17_Witness ==
    /\ Returned
    /\ DetailDecoded
    /\ ~food_details.has_foodNutrients
    /\ requests = [search |-> 1, detail |-> 1]
    /\ result = ZERO_NUTRITION

\* the value returned when a call site fails: its request failed or its body was
\* not JSON
SiteFailed(s) == Returned /\ result \in {RequestFailed(s), DecodeFailed(s)}

\* C18: the detail call site issues a request only after the search call site
\* got a successful response whose foods list has a match; from its first
\* request on no search request (and no sleep of the search call site) is made;
\* a failure that ends the search call site leaves the detail call site without
\* any request, and after get_nutrition_info has returned no request is made.
C18_SearchThenDetail ==
    /\ [](requests.detail > 0 =>
            /\ SearchDecoded
            /\ search_results.has_foods
            /\ search_results.foods # <<>>
            /\ requests.search >= 1)
    /\ [][requests.detail > 0 \/ site = "detail" =>
            requests'.search = requests.search /\ sleeps'.search = sleeps.search]_vars
    /\ [](SiteFailed("search") => requests.detail = 0 /\ sleeps.detail = 0)
    /\ [][Returned => requests' = requests /\ sleeps' = sleeps]_vars

\* the detail call site failed three times after the search had succeeded at
\* its second attempt: the search was not tried again
C18_Witness ==
    /\ SiteFailed("detail")
    /\ requests = [search |-> 2, detail |-> 3]
    /\ sleeps = [search |-> 1, detail |-> 2]

\* the call site has made its last attempt
SiteDone(s) == requests[s] > 0 /\ (Returned \/ site # s)

\* C22: each call site issues at most 3 requests, 6 in all, and at most 2 delays.
\* A delay is taken only after an attempt of the call site that failed with a
\* retryable condition and was its first or second, and the step after it is
\* the next attempt of the same call site: a call site that has made n attempts
\* has taken n - 1 delays when it is done, so none before the first attempt and
\* none after the last, be it the third, a success or a failure that is not
\* retried.
C22_RequestsAndDelaysBounded ==
    /\ [](\A s \in {"search", "detail"} :
            /\ requests[s] <= 3
            /\ sleeps[s] <= 2
            /\ requests[s] = 0 => sleeps[s] = 0
            /\ requests[s] > 0 => sleeps[s] \in {requests[s] - 1, requests[s]}
            /\ SiteDone(s) => sleeps[s] = requests[s] - 1)
    /\ [](requests.search + requests.detail <= 6)
    /\ [](pc = "sleep" =>
            /\ hist # <<>>
            /\ Len(hist) = requests[site]
            /\ Len(hist) < 3
            /\ Transient(hist[Len(hist)])
            /\ sleeps[site] = requests[site] - 1)
    /\ [][sleeps' # sleeps =>
            /\ pc = "sleep"
            /\ pc' = "request"
            /\ site' = site
            /\ sleeps'[site] = sleeps[site] + 1
            /\ requests' = requests]_vars
    /\ [][pc = "request" /\ sleeps[site] = requests[site] /\ requests[site] > 0 =>
            requests'[site] = requests[site] + 1 /\ sleeps' = sleeps]_vars

\* both call sites made three attempts and took two delays; the third attempt
\* of the detail call site succeeded
C22_Witness ==
    /\ Returned
    /\ requests = [search |-> 3, detail |-> 3]
    /\ sleeps = [search |-> 2, detail |-> 2]
    /\ Succeeded(hist[3])
    /\ IsSummary(result)

(***************************************************************************)
(* Properties of several invocations (specification SpecCalls)             *)
(***************************************************************************)
CallReturned(c) == calls[c].pc = "done"

\* the invocation got through the scaling loop and returned the projection
CallScaledSummary(c) ==
    /\ CallReturned(c)
    /\ calls[c].food_details.received
    /\ usda.detail.body.received
    /\ usda.detail.body.foodNutrients # <<>>
    /\ \A i \in DOMAIN usda.detail.body.foodNutrients :
          ~EntryRaises(usda.detail.body.foodNutrients[i])

\* the amount per 100 g the detail endpoint lists for the code; 0.0 when it does
\* not list it
Per100g(code) ==
    LET l    == usda.detail.body.foodNutrients
        hits == {i \in DOMAIN l : l[i].has_nutrient /\ l[i].id = code}
    IN  IF hits = {} THEN Zero ELSE l[CHOOSE i \in hits : \A j \in hits : j <= i].amount

\* x = 2 * y, for fractions
IsDouble(x, y) == x.d # 0 /\ y.d # 0 /\ x.n * y.d = 2 * y.n * x.d

\* C16: each field of a summary is the amount per 100 g of its nutrient times
\* (total grams / 100); and of two invocations against the same data, the second
\* for twice the grams of the first, the second returns exactly twice the first
\* in each of the four fields.
C16_ScalingLinear ==
    /\ \A c \in Calls :
          CallScaledSummary(c) =>
              /\ IsSummary(calls[c].result)
              /\ \A name \in SummaryKeys :
                    IsScaled(calls[c].result[name], Per100g(TrackedCode[name]),
                             calls[c].total_grams)
    /\ \A c \in Calls, d \in Calls :
          /\ CallScaledSummary(c)
          /\ CallScaledSummary(d)
          /\ IsDouble(calls[d].total_grams, calls[c].total_grams)
          => \A name \in SummaryKeys : IsDouble(calls[d].result[name], calls[c].result[name])

\* 75 g and 150 g of the same food: 537.75 kcal and 1075.5 kcal
C16_Witness ==
    /\ CallScaledSummary(1)
    /\ CallScaledSummary(2)
    /\ calls[1].total_grams = [n |-> 75, d |-> 1]
    /\ calls[2].total_grams = [n |-> 150, d |-> 1]
    /\ calls[1].result.calories = [n |-> 2151, d |-> 4]
    /\ calls[2].result.calories = [n |-> 2151, d |-> 2]
    /\ calls[2].result.protein = [n |-> 51, d |-> 40]

\* C19: of two invocations with the same query, the second begun after the first
\* returned, in the same process, with the file ../.env and the answers of the
\* endpoints unchanged, the second returns what the first returned.
C19_SameCallTwice ==
    \A c \in Calls, d \in Calls :
        /\ CallReturned(d)
        /\ c \in calls[d].after
        /\ calls[c].query = calls[d].query
        => calls[d].result = calls[c].result

\* the first invocation took the credential from ../.env and left it in the
\* environment, where the second found it; both returned the same populated
\* summary
C19_Witness ==
    /\ CallReturned(1) /\ CallReturned(2)
    /\ 1 \in calls[2].after
    /\ calls[1].query = Text(Q_75g_Butter)
    /\ calls[2].query = Text(Q_75g_Butter)
    /\ calls[1].entry_environ = "unset"
    /\ calls[2].entry_environ = "set"
    /\ IsSummary(calls[2].result)
    /\ calls[2].result.calories # Zero
    /\ calls[2].result = calls[1].result

\* the credential an invocation finds: the one of the environment or, when the
\* environment has none, the one of ../.env
EffectiveKey == IF os_environ = "unset" THEN dotenv_file ELSE os_environ

\* what an invocation with the query q returns when it is the only one
AloneResult(q) ==
    IF InvalidQuery(q) THEN ZERO_NUTRITION
    ELSE IF EffectiveKey \in {"unset", "empty"} THEN MissingKeyError
    ELSE LET p == parse_input(q.text)
         IN  IF p.parse_error # "None" THEN ZERO_NUTRITION
             ELSE IF ~Succeeded(usda.search.outcome) THEN RequestFailed("search")
             ELSE IF AfterSearch(usda.search.body) # NotReturned THEN AfterSearch(usda.search.body)
             ELSE IF ~Succeeded(usda.detail.outcome) THEN RequestFailed("detail")
             ELSE AfterDetail(usda.detail.body, convert_to_grams(p.quantity, p.unit))

EachAsAlone == \A c \in Calls : CallReturned(c) => calls[c].result = AloneResult(calls[c].query)

\* a step changes the locals of one invocation at most
OwnLocalsOnly ==
    \A c \in Calls, d \in Calls : calls'[c] # calls[c] /\ calls'[d] # calls[d] => c = d

\* C20 (as stated): invocations interleaved in any way each return what they
\* return alone, and no step of an invocation writes anything the invocations
\* share: the process environment, the file ../.env, the data of the endpoints.
C20_NoSharedWrite ==
    /\ []EachAsAlone
    /\ [][/\ OwnLocalsOnly
           /\ usda' = usda
           /\ dotenv_file' = dotenv_file
           /\ os_environ' = os_environ]_vars

\* C20 (amended): invocations interleaved in any way each return what they
\* return alone.  The zeroed summary, the decoded responses and the scaled
\* nutrient list are locals of each invocation, and the data of the endpoints
\* and the file ../.env are not written; the one write to state the invocations
\* share is load_dotenv putting the credential of ../.env into the process
\* environment when the environment has none, which leaves the credential every
\* invocation finds as it was.
C20_OnlyIdempotentEnvironmentWrite ==
    /\ []EachAsAlone
    /\ [][/\ OwnLocalsOnly
           /\ usda' = usda
           /\ dotenv_file' = dotenv_file
           /\ os_environ' # os_environ => os_environ = "unset" /\ os_environ' = dotenv_file
           /\ EffectiveKey' = EffectiveKey]_vars

\* two invocations that overlapped (neither began after the other returned),
\* for different quantities, the credential coming from ../.env
C20_Witness ==
    /\ CallReturned(1) /\ CallReturned(2)
    /\ 1 \notin calls[2].after /\ 2 \notin calls[1].after
    /\ calls[1].query = Text(Q_75g_Butter)
    /\ calls[2].query = Text(Q_150g_Butter)
    /\ calls[1].entry_environ = "unset"
    /\ os_environ = "set"
    /\ IsSummary(calls[1].result) /\ IsSummary(calls[2].result)
    /\ calls[1].result.calories = [n |-> 2151, d |-> 4]
    /\ calls[2].result.calories = [n |-> 2151, d |-> 2]

(***************************************************************************)
(* Properties of convert_to_grams (specification SpecConvert)              *)
(***************************************************************************)
Converted == pc = "converted"

\* the factors of the fixed table, as fractions
TableFactor(unit) ==
    IF unit \in {<<"g">>, <<"m", "l">>} THEN [n |-> 1, d |-> 1]
    ELSE IF unit \in {<<"k", "g">>, <<"l">>} THEN [n |-> 1000, d |-> 1]
    ELSE IF unit = <<"m", "g">> THEN [n |-> 1, d |-> 1000]
    ELSE IF unit = <<"o", "z">> THEN [n |-> 283495, d |-> 10000]
    ELSE IF unit = <<"l", "b">> THEN [n |-> 453592, d |-> 1000]
    ELSE IF unit = <<"t", "s", "p">> THEN [n |-> 5, d |-> 1]
    ELSE IF unit = <<"t", "b", "s", "p">> THEN [n |-> 15, d |-> 1]
    ELSE IF unit = <<"c", "u", "p">> THEN [n |-> 240, d |-> 1]
    ELSE [n |-> 1, d |-> 1]

\* x = q * f, for fractions
IsProduct(x, q, f) == x.d # 0 /\ x.n * (q.d * f.d) = (q.n * f.n) * x.d

\* C13: convert_to_grams returns a number, whatever the unit: the quantity times
\* the factor the table has for the unit in lowercase, and the quantity itself
\* when the table does not have the unit (or no unit is given).
C13_ConvertToGrams ==
    Converted =>
        \A u \in ConvertUnits :
            parsed.unit = u.text =>
                /\ IsProduct(total_grams, parsed.quantity, TableFactor(u.lower))
                /\ u.lower \notin TableUnits => RatEq(total_grams, parsed.quantity)

C13_Witness ==
    /\ Converted
    /\ parsed.quantity = [n |-> 2, d |-> 1]
    /\ parsed.unit = <<"T", "B", "S", "P">>
    /\ total_grams = [n |-> 30, d |-> 1]

(***************************************************************************)
(* Properties of parse_input (specification SpecParse)                     *)
(***************************************************************************)
Parsed == pc = "parsed"

\* parse_input succeeded with this quantity, unit and food name
ParsedAs(quantity, unit, food_name) ==
    /\ parsed.parse_error = "None"
    /\ parsed.quantity.d # 0
    /\ RatEq(parsed.quantity, quantity)
    /\ parsed.unit = unit
    /\ parsed.food_name = food_name

StartsWith(s, prefix) == Len(prefix) <= Len(s) /\ SubSeq(s, 1, Len(prefix)) = prefix

\* C7: "a/b unit food", a and b integers, parses to the quantity a/b, the unit in
\* lowercase and the food name.
C7_FractionQuantity ==
    Parsed =>
    \A a \in IntNumerals, b \in IntNumerals :
        StartsWith(query.text, a.text \o SLASH \o b.text \o SP) =>
            \A u \in UnitTokens, f \in FoodWords :
                query.text = FractionText(a, b, u, f) =>
                    ParsedAs([n |-> a.value.n, d |-> b.value.n], u.lower, f)

\* C8: a bare food name, of one word or of several, parses to quantity 1.0 and
\* unit "g".
C8_BareNameDefaults ==
    Parsed /\ query.text \in FoodNames =>
        /\ parsed.parse_error = "None"
        /\ parsed.quantity = DefaultQuantity
        /\ parsed.unit = <<"g">>

\* C9: "<number>[<unit>] <food name>" parses to that number, the unit in lowercase
\* ("g" when there is none) and, as food name, the whole text after the
\* measurement, of one word or of several.
C9_MeasuredQuery ==
    Parsed =>
    \A x \in Numerals, u \in UnitTokens \cup {NoUnit} :
        StartsWith(query.text, x.text \o u.text \o SP) =>
            \A f \in FoodNames :
                query.text = MeasuredText(x, u, f) => ParsedAs(x.value, u.lower, f)

\* C10: in "<number><unit>/<number><unit> <food>" the quantity and the unit are
\* those of the first alternative, whatever the second is, and a one-word food
\* name is the food name.
C10_FirstAlternative ==
    Parsed =>
    \A x1 \in Numerals, u1 \in UnitTokens :
        StartsWith(query.text, x1.text \o u1.text \o SLASH) =>
            \A x2 \in Numerals, u2 \in UnitTokens :
                StartsWith(query.text, x1.text \o u1.text \o SLASH \o x2.text \o u2.text \o SP) =>
                    \A f \in FoodNames :
                        query.text = CompoundText(x1, u1, x2, u2, f) =>
                            /\ parsed.parse_error = "None"
                            /\ RatEq(parsed.quantity, x1.value)
                            /\ parsed.unit = u1.lower
                            /\ f \in FoodWords => parsed.food_name = f

C10_Witness ==
    /\ Parsed
    /\ query.text = Q_50g_2oz_sultanas
    /\ parsed = ParseSuccess([n |-> 50, d |-> 1], <<"g">>, <<"s", "u", "l", "t", "a", "n", "a", "s">>)

\* the text before the last space of the query, "" when there is no space
MeasurementText ==
    LET q == strip(query.text)
    IN  IF rfind_space(q) = 0 THEN <<>> ELSE strip(Slice(q, 1, rfind_space(q) - 1))

\* what the pattern finds in the measurement the code applies it to
PatternMatch == match_pattern(first_measurement(MeasurementText))

\* the number a token of digits and at most one dot is the decimal writing of
DecimalOf(token) ==
    LET dot == FindChar(token, 1, ".")
    IN  [n |-> DecimalValue(SelectSeq(token, LAMBDA ch : ch # ".")),
         d |-> IF dot > Len(token) THEN 1 ELSE Pow10(Len(token) - dot)]

NonBlank(v) == v.type = "str" /\ strip(v.text) # <<>>

Max0(n) == IF n > 0 THEN n ELSE 0

RecipeReturned == recipe_pc = "returned"

\* the answer was a status other than 200, or a meal without source or thumb
NonOK(r) == r.kind = "response" /\ r.status_code # 200

LacksSourceOrThumb(r) ==
    /\ r.kind = "response" /\ r.status_code = 200
    /\ r.body.json = "dict"
    /\ r.body.meals \notin {Absent, Null}
    /\ r.body.meals.items # <<>>
    /\ r.body.meals.items[1].type = "dict"
    /\ \/ r.body.meals.items[1].strSource \in {Absent, Null, Str(<<>>), Str(<<" ">>)}
       \/ r.body.meals.items[1].strMealThumb \in {Absent, Null, Str(<<>>), Str(<<" ">>)}
    /\ r.body.meals.items[1].strSource # Number
    /\ r.body.meals.items[1].strSource = Str(<<"h", "t", "t", "p">>) => r.body.meals.items[1].strMealThumb # Number

\* C21: get_random_recipe returns only with exactly count meals (none, and no
\* request made, when count <= 0), each with a source and a thumb that are not
\* blank; the list never exceeds count and grows by one meal per request at
\* most; a pass of the loop whose answer is a status other than 200 or a meal
\* without source or thumb leaves the list as it was and the loop running; the
\* loop is left only by its test or by an exception; and when the endpoint
\* answers again and again with a meal that is added, the call ends: it returns
\* unless an exception ended it.
C21_ReturnsExactlyCount ==
    /\ [](RecipeReturned =>
            /\ Len(simplified_meals) = Max0(count)
            /\ \A i \in DOMAIN simplified_meals :
                  NonBlank(simplified_meals[i].source) /\ NonBlank(simplified_meals[i].thumb)
            /\ count <= 0 => recipe_requests = 0 /\ response = NoResponse)
    /\ [](Len(simplified_meals) <= Max0(count))
    /\ [](recipe_requests < MaxRequests => Len(simplified_meals) <= recipe_requests)
    /\ [][recipe_pc = "loop" /\ response' # NoResponse
            /\ (NonOK(response') \/ LacksSourceOrThumb(response'))
          => simplified_meals' = simplified_meals /\ recipe_pc' = "loop"]_vars
    /\ [][simplified_meals' # simplified_meals =>
            /\ Len(simplified_meals') = Len(simplified_meals) + 1
            /\ NonBlank(simplified_meals'[Len(simplified_meals')].source)
            /\ NonBlank(simplified_meals'[Len(simplified_meals')].thumb)
            /\ response'.kind = "response" /\ response'.status_code = 200
            /\ recipe_pc' = "loop"]_vars
    /\ [][recipe_pc' = "returned" /\ recipe_pc # "returned" =>
            ~(Len(simplified_meals) < count) /\ simplified_meals' = simplified_meals]_vars
    /\ <>(recipe_pc \in {"returned", "raised"})

\* two meals were asked for and returned, and the last request was answered by
\* the second
C21_Witness ==
    /\ RecipeReturned
    /\ count = 2
    /\ Len(simplified_meals) = 2
    /\ recipe_requests = MaxRequests
    /\ simplified_meals[1].strInstructions = Str(<<"a", "<", "b", "r", ">", "b">>)
    /\ simplified_meals[1].ingredients = <<<<"2", " ", "E", "g", "g">>>>

\* as many requests as the model counts, and still no meal
C21_WitnessNoBound ==
    /\ recipe_pc = "loop"
    /\ count > 0
    /\ simplified_meals = <<>>
    /\ recipe_requests = MaxRequests
    /\ NonOK(response) \/ LacksSourceOrThumb(response)

====
